---- MODULE Spec2Model ----
(***************************************************************************)
(* A model of the GloFAS forecast service: glofas.py (download cache,      *)
(* variable selection, dimension reduction, quantile thresholds, risk      *)
(* classification, grid polygonizer) and the request handlers of app.py.   *)
(*                                                                         *)
(* Numbers.  A discharge is a float; the model keeps the floats that are   *)
(* whole multiples of 1/8 (dyadic, so exactly representable) as the        *)
(* integer count of eighths, and the three non-finite floats as tagged     *)
(* values.  A threshold is a quantile of such values, a rational with      *)
(* denominator 100: it is kept as the integer count of 1/800.  The         *)
(* property "discharge" is round(x, 2): an integer count of hundredths.    *)
(* Coordinates are integers; a cell centre 0.5 * (a + b) is kept doubled.  *)
(***************************************************************************)
EXTENDS Integers, Sequences, FiniteSets, TLC

VARIABLES
    GIA_LAI_POLYGON,  \* the process-wide boundary ring, <<>> for None
    cube,             \* cube[w]: the data cube the GRIB file of invocation w opens as
    pc,               \* pc[w]: where invocation w of grib_to_geojson stands
    loc,              \* loc[w]: the local variables of invocation w
    visited,          \* visited[w]: the cells (i, j) the loop of w has entered, in order
    call,             \* a direct call of a pure function: its name and arguments
    ret,              \* the value the direct call returned
    today,            \* the current date in Asia/Ho_Chi_Minh (a day number)
    files,            \* the dates d for which glofas_forecast_gialai_<d>.grib exists
    req,              \* req[r]: the state of call r of download_glofas_forecast
    api               \* the retrievals sent to the remote API so far, in order

vars == <<GIA_LAI_POLYGON, cube, pc, loc, visited, call, ret, today, files, req, api>>
pipelineVars == <<GIA_LAI_POLYGON, cube, pc, loc, visited>>
callVars == <<call, ret>>
cacheVars == <<today, files, req, api>>

----------------------------------------------------------------------------
(* Bounds of the model *)

MaxVal == 3       \* finite discharges range over -1 .. MaxVal eighths
MaxCount == 4     \* a field handed directly to compute_thresholds has at most MaxCount nodes
MaxLat == 3       \* a grid has 1 .. MaxLat latitude nodes
MaxLon == 3       \* a grid has 1 .. MaxLon longitude nodes
MaxVars == 2      \* a cube declares at most MaxVars variables
NWorkers == 2     \* concurrent invocations of grib_to_geojson
NRequests == 2    \* concurrent calls of download_glofas_forecast
MaxDay == 2       \* the clock runs over the days 1 .. MaxDay

----------------------------------------------------------------------------
(* Floats *)

Fin(n) == <<"fin", n>>
NaN == <<"nan", 0>>
PInf == <<"inf", 1>>
NInf == <<"inf", -1>>

Vals == {NaN, PInf, NInf} \cup {Fin(n) : n \in -1..MaxVal}

\* np.isfinite
isfinite(v) == v[1] = "fin"

\* v > 0 on floats: False for nan
GtZero(v) == (v[1] # "nan") /\ v[2] > 0

\* v <= 0 on floats: False for nan
LeZero(v) == (v[1] # "nan") /\ v[2] <= 0

\* round(x, 2) of x = n/8, in hundredths: n * 12.5 rounded half to even
\* (n/8 is exact in binary, so the tie is a real tie)
Round2(n) ==
    LET t == n * 25
        f == t \div 2
    IN  IF t % 2 = 0 THEN f
        ELSE IF f % 2 = 0 THEN f ELSE f + 1

----------------------------------------------------------------------------
(* compute_thresholds *)

RECURSIVE Flatten(_)
\* values[mask] reads a 2D array row by row
Flatten(m) == IF m = <<>> THEN <<>> ELSE Head(m) \o Flatten(Tail(m))

IsPositive(v) == isfinite(v) /\ GtZero(v)

\* values[np.isfinite(values) & (values > 0)], as eighths
Positive(values) ==
    LET kept == SelectSeq(Flatten(values), IsPositive)
    IN  [k \in 1..Len(kept) |-> kept[k][2]]

RECURSIVE Insert(_, _)
Insert(x, s) ==
    IF s = <<>> THEN <<x>>
    ELSE IF x <= Head(s) THEN <<x>> \o s
    ELSE <<Head(s)>> \o Insert(x, Tail(s))

RECURSIVE Sort(_)
Sort(s) == IF s = <<>> THEN <<>> ELSE Insert(Head(s), Sort(Tail(s)))

\* np.quantile(a, p / 100), linear interpolation, in 1/800:
\* the virtual index is (n - 1) * p / 100, split into floor and fraction
Quantile(a, p) ==
    LET s == Sort(a)
        h == (Len(s) - 1) * p
        lo == h \div 100
        g == h % 100
    IN  IF g = 0 THEN 100 * s[lo + 1]
        ELSE 100 * s[lo + 1] + g * (s[lo + 2] - s[lo + 1])

\* the defaults 1.0, 5.0, 10.0 in 1/800
DefaultThresholds == <<800, 4000, 8000>>

\* the filter is values >= 0: zeros pass
compute_thresholds_nonneg(values) ==
    LET IsNonNeg(v) == isfinite(v) /\ v[2] >= 0
        kept == SelectSeq(Flatten(values), IsNonNeg)
        a == [k \in 1..Len(kept) |-> kept[k][2]]
    IN  IF Len(a) = 0 THEN DefaultThresholds
        ELSE <<Quantile(a, 55), Quantile(a, 85), Quantile(a, 98)>>

compute_thresholds(values) ==
    LET positive == Positive(values)
    IN  IF Len(positive) = 0 THEN DefaultThresholds
        ELSE <<Quantile(positive, 55), Quantile(positive, 85), Quantile(positive, 98)>>

----------------------------------------------------------------------------
(* classify_point *)

\* discharge >= q for a finite positive discharge (eighths) and a threshold (1/800)
Ge(v, q) == 100 * v[2] >= q

\* the isfinite test is missing
classify_point_unguarded(discharge, q2, q5, q20) ==
    IF LeZero(discharge) THEN <<"None", "None">>
    ELSE IF Ge(discharge, q20) THEN <<"20", "purple">>
    ELSE IF Ge(discharge, q5) THEN <<"5", "red">>
    ELSE IF Ge(discharge, q2) THEN <<"2", "orange">>
    ELSE <<"1", "gray">>

\* the comparisons are > instead of >=
classify_point_strict(discharge, q2, q5, q20) ==
    IF ~isfinite(discharge) \/ LeZero(discharge) THEN <<"None", "None">>
    ELSE IF 100 * discharge[2] > q20 THEN <<"20", "purple">>
    ELSE IF 100 * discharge[2] > q5 THEN <<"5", "red">>
    ELSE IF 100 * discharge[2] > q2 THEN <<"2", "orange">>
    ELSE <<"1", "gray">>

classify_point(discharge, q2, q5, q20) ==
    IF ~isfinite(discharge) \/ LeZero(discharge) THEN <<"None", "None">>
    ELSE IF Ge(discharge, q20) THEN <<"20", "purple">>
    ELSE IF Ge(discharge, q5) THEN <<"5", "red">>
    ELSE IF Ge(discharge, q2) THEN <<"2", "orange">>
    ELSE <<"1", "gray">>

----------------------------------------------------------------------------
(* choose_variable *)

candidates == <<"river_discharge_in_the_last_24_hours", "dis24", "dis">>

Range(s) == {s[k] : k \in 1..Len(s)}

Min(S) == CHOOSE x \in S : \A y \in S : x <= y

\* the last candidate present wins
choose_variable_last(data_vars) ==
    LET present == {k \in 1..Len(candidates) : candidates[k] \in Range(data_vars)}
    IN  IF present # {}
        THEN [var |-> candidates[CHOOSE k \in present : \A l \in present : l <= k],
              warn |-> FALSE, error |-> "none"]
        ELSE IF Len(data_vars) = 0
        THEN [var |-> "", warn |-> FALSE, error |-> "IndexError"]
        ELSE [var |-> data_vars[1], warn |-> TRUE, error |-> "none"]

\* what choose_variable returns (the variable's name), whether it printed the
\* fallback warning, and the exception it raised
choose_variable(data_vars) ==
    LET present == {k \in 1..Len(candidates) : candidates[k] \in Range(data_vars)}
    IN  IF present # {}
        THEN [var |-> candidates[Min(present)], warn |-> FALSE, error |-> "none"]
        ELSE IF Len(data_vars) = 0
        THEN [var |-> "", warn |-> FALSE, error |-> "IndexError"]
        ELSE [var |-> data_vars[1], warn |-> TRUE, error |-> "none"]

----------------------------------------------------------------------------
(* The dimension reducer.  A dimension is <<name, size>>. *)

DimNames(dims) == {dims[k][1] : k \in 1..Len(dims)}

NotStep(d) == d[1] # "step"

\* var.sel(step=24), or var.isel(step=0) when 24 is no value of the step
\* coordinate (or there is no step coordinate): the dimension goes either way
select_step(dims, steps) ==
    IF "step" \in DimNames(dims)
    THEN [dims |-> SelectSeq(dims, NotStep),
          slice |-> IF 24 \in Range(steps)
                    THEN CHOOSE k \in 1..Len(steps) : steps[k] = 24
                    ELSE 1]
    ELSE [dims |-> dims, slice |-> 1]

Spatial == {"latitude", "lat", "longitude", "lon"}

KeepsDim(d) == ~(d[1] \notin Spatial /\ d[2] = 1)

\* isel({dim: 0}) for every non-spatial dimension of size 1
drop_singletons(dims) == SelectSeq(dims, KeepsDim)

lat_name_of(dims) == IF "latitude" \in DimNames(dims) THEN "latitude" ELSE "lat"
lon_name_of(dims) == IF "longitude" \in DimNames(dims) THEN "longitude" ELSE "lon"

----------------------------------------------------------------------------
(* GIA_LAI_POLYGON.contains(Point(x, y)).  A ring is a sequence of integer *)
(* vertices <<lon, lat>>; the point is given doubled.                      *)

Twice(ring) == [k \in 1..Len(ring) |-> <<2 * ring[k][1], 2 * ring[k][2]>>]

Next1(ring, k) == IF k = Len(ring) THEN 1 ELSE k + 1

Between(x, a, b) == (a <= x /\ x <= b) \/ (b <= x /\ x <= a)

OnSegment(p, a, b) ==
    /\ (b[1] - a[1]) * (p[2] - a[2]) = (b[2] - a[2]) * (p[1] - a[1])
    /\ Between(p[1], a[1], b[1])
    /\ Between(p[2], a[2], b[2])

\* the ray from p towards +x crosses the edge a-b
Crosses(p, a, b) ==
    /\ (a[2] > p[2]) # (b[2] > p[2])
    /\ IF b[2] > a[2]
       THEN (p[1] - a[1]) * (b[2] - a[2]) < (p[2] - a[2]) * (b[1] - a[1])
       ELSE (p[1] - a[1]) * (b[2] - a[2]) > (p[2] - a[2]) * (b[1] - a[1])

OnRing(ring, p2) ==
    LET r == Twice(ring)
    IN  \E k \in 1..Len(r) : OnSegment(p2, r[k], r[Next1(r, k)])

OddCrossings(ring, p2) ==
    LET r == Twice(ring)
    IN  Cardinality({k \in 1..Len(r) : Crosses(p2, r[k], r[Next1(r, k)])}) % 2 = 1

\* boundary-inclusive containment (shapely's covers)
Covers(ring, p2) == OnRing(ring, p2) \/ OddCrossings(ring, p2)

\* shapely's contains: the point lies in the interior of the polygon
Contains(ring, p2) == ~OnRing(ring, p2) /\ OddCrossings(ring, p2)

----------------------------------------------------------------------------
(* The cell loop of grib_to_geojson *)

MkFeature(polygon, discharge, risk) ==
    [type |-> "Feature",
     geometry |-> [type |-> "Polygon", coordinates |-> <<polygon>>],
     properties |-> [discharge |-> Round2(discharge[2]),
                     risk_level |-> risk[1],
                     risk_color |-> risk[2]]]

\* each vertex is written [latitude, longitude]
cell_polygon_latlon(lon_left, lon_right, lat_top, lat_bottom) ==
    << <<lat_top, lon_left>>, <<lat_top, lon_right>>,
       <<lat_bottom, lon_right>>, <<lat_bottom, lon_left>>,
       <<lat_top, lon_left>> >>

\* lines 238-244
cell_polygon(lon_left, lon_right, lat_top, lat_bottom) ==
    << <<lon_left, lat_top>>, <<lon_right, lat_top>>,
       <<lon_right, lat_bottom>>, <<lon_left, lat_bottom>>,
       <<lon_left, lat_top>> >>

\* the body of the loop for cell (i, j), i and j counted from 0 as in the
\* code: the features it appends (none or one)
cell_features(values, lat, lon, q, boundary, i, j) ==
    LET discharge == values[i + 1][j + 1]
        risk == classify_point(discharge, q[1], q[2], q[3])
        lon_left == lon[j + 1]
        lon_right == lon[j + 2]
        lat_top == lat[i + 1]
        lat_bottom == lat[i + 2]
    IN  IF risk[1] = "None" THEN <<>>
        ELSE IF boundary # <<>>
                /\ ~Contains(boundary, <<lon_left + lon_right, lat_top + lat_bottom>>)
        THEN <<>>
        ELSE <<MkFeature(cell_polygon(lon_left, lon_right, lat_top, lat_bottom),
                         discharge, risk)>>

\* values[i, j] raises IndexError
OutOfRange(values, i, j) == i + 1 > Len(values) \/ j + 1 > Len(values[1])

----------------------------------------------------------------------------
(* grib_to_geojson, one invocation per worker *)

Workers == 1..NWorkers

NoLocals ==
    [var |-> "", warn |-> FALSE, dims |-> <<>>, slice |-> 1,
     lat_name |-> "", lon_name |-> "", lat |-> <<>>, lon |-> <<>>,
     values |-> <<>>, ndim |-> 0, q |-> <<0, 0, 0>>, i |-> 0, j |-> 0,
     features |-> <<>>, error |-> "none",
     geojson |-> [type |-> "none", features |-> <<>>]]

Fail(w, error) ==
    /\ pc' = [pc EXCEPT ![w] = "failed"]
    /\ loc' = [loc EXCEPT ![w].error = error]

\* line 167: var = choose_variable(ds)
ChooseVariable(w) ==
    /\ pc[w] = "choose"
    /\ LET r == choose_variable(cube[w].data_vars)
       IN  IF r.error # "none"
           THEN Fail(w, r.error)
           ELSE /\ pc' = [pc EXCEPT ![w] = "step"]
                /\ loc' = [loc EXCEPT ![w].var = r.var, ![w].warn = r.warn,
                                      ![w].dims = cube[w].dims]
    /\ UNCHANGED <<GIA_LAI_POLYGON, cube, visited, callVars, cacheVars>>

\* lines 170-180: the 24 hour lead time
SelectStep(w) ==
    /\ pc[w] = "step"
    /\ LET r == select_step(loc[w].dims, cube[w].steps)
       IN  loc' = [loc EXCEPT ![w].dims = r.dims, ![w].slice = r.slice]
    /\ pc' = [pc EXCEPT ![w] = "squeeze"]
    /\ UNCHANGED <<GIA_LAI_POLYGON, cube, visited, callVars, cacheVars>>

\* lines 182-189
DropSingletons(w) ==
    /\ pc[w] = "squeeze"
    /\ loc' = [loc EXCEPT ![w].dims = drop_singletons(loc[w].dims)]
    /\ pc' = [pc EXCEPT ![w] = "coords"]
    /\ UNCHANGED <<GIA_LAI_POLYGON, cube, visited, callVars, cacheVars>>

\* lines 191-203: ds[lat_name] and ds[lon_name] raise KeyError for a name the
\* dataset does not have
ReadCoords(w) ==
    /\ pc[w] = "coords"
    /\ LET lat_name == lat_name_of(loc[w].dims)
           lon_name == lon_name_of(loc[w].dims)
           ndim == Len(loc[w].dims)
       IN  IF lat_name \notin DOMAIN cube[w].coords \/ lon_name \notin DOMAIN cube[w].coords
           THEN Fail(w, "KeyError")
           ELSE /\ pc' = [pc EXCEPT ![w] = "rank"]
                /\ loc' = [loc EXCEPT
                       ![w].lat_name = lat_name,
                       ![w].lon_name = lon_name,
                       ![w].lat = cube[w].coords[lat_name],
                       ![w].lon = cube[w].coords[lon_name],
                       ![w].ndim = ndim,
                       ![w].values = IF ndim = 2
                                     THEN cube[w].data[loc[w].var][loc[w].slice]
                                     ELSE <<>>]
    /\ UNCHANGED <<GIA_LAI_POLYGON, cube, visited, callVars, cacheVars>>

\* lines 205-208
CheckRank(w) ==
    /\ pc[w] = "rank"
    /\ IF loc[w].ndim # 2
       THEN Fail(w, "RuntimeError")
       ELSE /\ pc' = [pc EXCEPT ![w] = "thresholds"]
            /\ UNCHANGED loc
    /\ UNCHANGED <<GIA_LAI_POLYGON, cube, visited, callVars, cacheVars>>

\* lines 210-216
Thresholds(w) ==
    /\ pc[w] = "thresholds"
    /\ loc' = [loc EXCEPT ![w].q = compute_thresholds(loc[w].values),
                          ![w].features = <<>>, ![w].i = 0, ![w].j = 0]
    /\ pc' = [pc EXCEPT ![w] = "loop"]
    /\ UNCHANGED <<GIA_LAI_POLYGON, cube, visited, callVars, cacheVars>>

InLoop(w) == loc[w].i < Len(loc[w].lat) - 1 /\ Len(loc[w].lon) - 1 > 0

\* every invocation appends to the one list
features_append_shared(l, w, fs) ==
    [x \in DOMAIN l |-> [l[x] EXCEPT !.features = @ \o fs]]

\* line 258: features.append(feature), features being the list line 213 made
features_append(l, w, fs) == [l EXCEPT ![w].features = @ \o fs]

\* the columns are walked before the rows
next_cell_column_major(i, j, n_lat, n_lon) ==
    IF i + 1 < n_lat - 1 THEN <<i + 1, j>>
    ELSE IF j + 1 < n_lon - 1 THEN <<0, j + 1>> ELSE <<n_lat - 1, 0>>

\* lines 218-219: the cell after (i, j)
next_cell(i, j, n_lat, n_lon) ==
    IF j + 1 < n_lon - 1 THEN <<i, j + 1>> ELSE <<i + 1, 0>>

\* lines 218-258: one pass of the loop body
LoopCell(w) ==
    /\ pc[w] = "loop"
    /\ InLoop(w)
    /\ LET l == loc[w]
           nxt == next_cell(l.i, l.j, Len(l.lat), Len(l.lon))
       IN  IF OutOfRange(l.values, l.i, l.j)
           THEN Fail(w, "IndexError")
           ELSE /\ loc' = [features_append(loc, w,
                               cell_features(l.values, l.lat, l.lon, l.q,
                                             GIA_LAI_POLYGON, l.i, l.j))
                           EXCEPT ![w].i = nxt[1], ![w].j = nxt[2]]
                /\ pc' = pc
    /\ visited' = [visited EXCEPT ![w] = Append(@, <<loc[w].i, loc[w].j>>)]
    /\ UNCHANGED <<GIA_LAI_POLYGON, cube, callVars, cacheVars>>

\* lines 260-266
Finish(w) ==
    /\ pc[w] = "loop"
    /\ ~InLoop(w)
    /\ loc' = [loc EXCEPT ![w].geojson =
                   [type |-> "FeatureCollection", features |-> loc[w].features]]
    /\ pc' = [pc EXCEPT ![w] = "done"]
    /\ UNCHANGED <<GIA_LAI_POLYGON, cube, visited, callVars, cacheVars>>

----------------------------------------------------------------------------
(* The inputs: data cubes and boundaries *)

Palette == <<NaN, PInf, NInf>> \o [k \in 1..(MaxVal + 2) |-> Fin(k - 2)]

\* the n x m field whose node (i, j) holds Palette[a * i + b * j + c]
PatternField(n, m, a, b, c) ==
    [i \in 1..n |-> [j \in 1..m |->
        Palette[((a * (i - 1) + b * (j - 1) + c) % Len(Palette)) + 1]]]

\* latitudes descend from 10, longitudes ascend from 0, both in steps of 2
LatSeq(n) == [k \in 1..n |-> 10 - 2 * (k - 1)]
LonSeq(m) == [k \in 1..m |-> 2 * (k - 1)]

VarNames == <<"river_discharge_in_the_last_24_hours", "dis24", "dis", "t2m", "swvl1">>

NameIndex(name) == CHOOSE k \in 1..Len(VarNames) : VarNames[k] = name

DistinctSeqs(S, n) ==
    UNION {{s \in [1..k -> S] : \A x, y \in 1..k : x # y => s[x] # s[y]} : k \in 0..n}

\* a well-formed cube: every declared variable has the dimensions dims, and
\* for each value of the step dimension a field of the shape the remaining
\* dimensions give
MkCube(data_vars, dims, steps, coords, fields) ==
    [data_vars |-> data_vars, dims |-> dims, steps |-> steps, coords |-> coords,
     data |-> [v \in Range(data_vars) |-> fields]]

LatLonCoords(n, m) ==
    [x \in {"latitude", "longitude"} |-> IF x = "latitude" THEN LatSeq(n) ELSE LonSeq(m)]

\* one variable over (latitude, longitude), no lead time
GridCubes ==
    {MkCube(<<"dis24">>, << <<"latitude", n>>, <<"longitude", m>> >>, <<>>,
            LatLonCoords(n, m), <<PatternField(n, m, a, b, c)>>) :
        n \in 1..MaxLat, m \in 1..MaxLon,
        a \in 0..(Len(Palette) - 1), b \in 0..(Len(Palette) - 1),
        c \in 0..(Len(Palette) - 1)}

\* every declaration order of up to MaxVars variables, each with its own field
SelectCubes ==
    {[data_vars |-> dv,
      dims |-> << <<"latitude", 2>>, <<"longitude", 2>> >>,
      steps |-> <<>>,
      coords |-> LatLonCoords(2, 2),
      data |-> [v \in Range(dv) |-> <<PatternField(2, 2, 1, 2, 4 + NameIndex(v))>>]] :
        dv \in DistinctSeqs(Range(VarNames), MaxVars)}

LeadOptions ==
    { <<<<>>, <<>>>>,
      << <<<<"step", 1>>>>, <<24>> >>,
      << <<<<"step", 1>>>>, <<6>> >>,
      << <<<<"step", 2>>>>, <<12, 24>> >>,
      << <<<<"step", 2>>>>, <<6, 12>> >>,
      << <<<<"step", 2>>>>, <<>> >>,
      << <<<<"number", 1>>>>, <<>> >>,
      << <<<<"number", 2>>>>, <<>> >>,
      << <<<<"step", 2>>, <<"number", 1>>>>, <<12, 24>> >>,
      << <<<<"number", 1>>, <<"surface", 1>>>>, <<>> >> }

SpatialOptions ==
    { << <<"latitude", 2>>, <<"longitude", 4>> >>,
      << <<"lat", 2>>, <<"lon", 4>> >>,
      << <<"longitude", 4>>, <<"latitude", 2>> >>,
      << <<"latitude", 2>> >>,
      << <<"longitude", 4>> >>,
      <<>> }

\* the dataset has a coordinate for each spatial dimension of the variable,
\* and for the names in extra
CoordsFor(dims, extra) ==
    [x \in (DimNames(dims) \cap Spatial) \cup extra |->
        IF x \in {"latitude", "lat"} THEN LatSeq(2) ELSE LonSeq(4)]

StepCount(dims) ==
    IF "step" \in DimNames(dims)
    THEN (CHOOSE d \in Range(dims) : d[1] = "step")[2]
    ELSE 1

\* the field of one lead time: its shape is what is left of dims without the
\* step dimension and the non-spatial dimensions of size 1
SliceField(dims, s) ==
    LET Stays(d) == d[1] # "step" /\ (d[1] \in Spatial \/ d[2] # 1)
        left == SelectSeq(dims, Stays)
    IN  IF Len(left) = 2 THEN PatternField(left[1][2], left[2][2], 1, 2, 4 + s)
        ELSE <<>>

DimCubes ==
    {MkCube(<<"dis24">>, lead[1] \o sp, lead[2], CoordsFor(sp, extra),
            [s \in 1..StepCount(lead[1]) |-> SliceField(lead[1] \o sp, s)]) :
        lead \in LeadOptions, sp \in SpatialOptions, extra \in {{}, {"lat", "lon"}}}

Cubes == GridCubes \cup SelectCubes \cup DimCubes

\* the cubes of the concurrent invocations: two grids, a cube without
\* variables, one with an unlisted variable only, one without a longitude
\* axis, one whose second axis is not the longitude
ConcCubes ==
    {c \in GridCubes : c.dims = << <<"latitude", 2>>, <<"longitude", 3>> >>
                       /\ c.data["dis24"][1] \in {PatternField(2, 3, 1, 1, 4),
                                                  PatternField(2, 3, 0, 1, 5)}}
    \cup {c \in SelectCubes : c.data_vars \in {<<>>, <<"t2m">>}}
    \cup {c \in DimCubes : /\ c.steps = <<>>
                           /\ \/ /\ c.dims = << <<"latitude", 2>> >>
                                 /\ DOMAIN c.coords = {"latitude"}
                              \/ /\ c.dims = << <<"number", 2>>, <<"latitude", 2>> >>
                                 /\ DOMAIN c.coords = {"latitude", "lat", "lon"}}

NoCube == MkCube(<<>>, <<>>, <<>>, <<>>, <<>>)

\* a square and two triangles; the cell centres (1, 9), (3, 9), (1, 7), (3, 7)
\* of a grid fall inside, outside, on an edge and on a vertex of them
Boundaries ==
    { <<>>,
      << <<0, 8>>, <<3, 8>>, <<3, 10>>, <<0, 10>> >>,
      << <<1, 7>>, <<5, 7>>, <<5, 11>> >>,
      << <<0, 6>>, <<4, 6>>, <<4, 10>> >> }

\* the boundaries of the concurrent invocations: none, and the square
ConcBoundaries == {b \in Boundaries : Len(b) # 3}

----------------------------------------------------------------------------
(* Direct calls, the download cache: idle values *)

NoCall == [fn |-> "none"]
NoRet == [done |-> FALSE]

CallsIdle == call = NoCall /\ ret = NoRet

Requests == 1..NRequests

CacheIdle ==
    /\ today = 1
    /\ files = {}
    /\ req = [r \in Requests |-> [pc |-> "off"]]
    /\ api = <<>>

PipelineIdle ==
    /\ GIA_LAI_POLYGON = <<>>
    /\ cube = [w \in Workers |-> NoCube]
    /\ pc = [w \in Workers |-> "off"]
    /\ loc = [w \in Workers |-> NoLocals]
    /\ visited = [w \in Workers |-> <<>>]

----------------------------------------------------------------------------
(* One invocation of grib_to_geojson on every cube and boundary *)

Init ==
    /\ GIA_LAI_POLYGON \in Boundaries
    /\ \E c \in Cubes : cube = [w \in Workers |-> IF w = 1 THEN c ELSE NoCube]
    /\ pc = [w \in Workers |-> IF w = 1 THEN "choose" ELSE "off"]
    /\ loc = [w \in Workers |-> NoLocals]
    /\ visited = [w \in Workers |-> <<>>]
    /\ CallsIdle
    /\ CacheIdle

Next ==
    \E w \in Workers :
        \/ ChooseVariable(w)
        \/ SelectStep(w)
        \/ DropSingletons(w)
        \/ ReadCoords(w)
        \/ CheckRank(w)
        \/ Thresholds(w)
        \/ LoopCell(w)
        \/ Finish(w)

Spec == Init /\ [][Next]_vars

(* Concurrent invocations under a multi-worker host *)

InitConc ==
    /\ GIA_LAI_POLYGON \in ConcBoundaries
    /\ cube \in [Workers -> ConcCubes]
    /\ pc = [w \in Workers |-> "choose"]
    /\ loc = [w \in Workers |-> NoLocals]
    /\ visited = [w \in Workers |-> <<>>]
    /\ CallsIdle
    /\ CacheIdle

SpecConc == InitConc /\ [][Next]_vars

----------------------------------------------------------------------------
(* Claims about one invocation, checked under Spec *)

Running(w) == pc[w] \in {"loop", "done"}

\* the ring of cell (i, j), i and j counted from 0
Ring(lat, lon, i, j) ==
    << <<lon[j + 1], lat[i + 1]>>, <<lon[j + 2], lat[i + 1]>>,
       <<lon[j + 2], lat[i + 2]>>, <<lon[j + 1], lat[i + 2]>>,
       <<lon[j + 1], lat[i + 1]>> >>

CellsOf(w) ==
    {<<i, j>> : i \in 0..(Len(loc[w].lat) - 2), j \in 0..(Len(loc[w].lon) - 2)}

IsFeatureOf(w, f, c) ==
    f.geometry.coordinates = <<Ring(loc[w].lat, loc[w].lon, c[1], c[2])>>

NodeValue(w, c) == loc[w].values[c[1] + 1][c[2] + 1]

BadValue(v) == v[1] \in {"nan", "inf"} \/ v[2] <= 0

\* C1: no feature is emitted for a cell whose node value is NaN, infinite,
\* zero or negative, and every emitted feature has a risk_level among "1",
\* "2", "5", "20" and a risk_color among gray, orange, red, purple.
C1_NoFeatureForBadNode ==
    \A w \in Workers :
        /\ \A k \in 1..Len(loc[w].features) :
               /\ loc[w].features[k].properties.risk_level \in {"1", "2", "5", "20"}
               /\ loc[w].features[k].properties.risk_color
                      \in {"gray", "orange", "red", "purple"}
        /\ \A k \in 1..Len(visited[w]) :
               (pc[w] # "failed" /\ BadValue(NodeValue(w, visited[w][k])))
                   => \A n \in 1..Len(loc[w].features) :
                          ~IsFeatureOf(w, loc[w].features[n], visited[w][k])

\* an invocation has finished with features, having skipped a NaN cell, an
\* infinite cell and a cell of value zero or less
C1_Witness ==
    /\ pc[1] = "done"
    /\ loc[1].geojson.features # <<>>
    /\ \E k \in 1..Len(visited[1]) : NodeValue(1, visited[1][k]) = NaN
    /\ \E k \in 1..Len(visited[1]) : NodeValue(1, visited[1][k]) \in {PInf, NInf}
    /\ \E k \in 1..Len(visited[1]) : NodeValue(1, visited[1][k]) \in {Fin(0), Fin(-1)}
    /\ GIA_LAI_POLYGON = <<>>

\* the cells of n rows and m columns, row by row
RowMajor(n, m) ==
    IF n <= 0 \/ m <= 0 THEN <<>>
    ELSE [k \in 1..(n * m) |-> <<(k - 1) \div m, (k - 1) % m>>]

Centre2(w, c) ==
    <<loc[w].lon[c[2] + 1] + loc[w].lon[c[2] + 2],
      loc[w].lat[c[1] + 1] + loc[w].lat[c[1] + 2]>>

Classified(w, c) == ~BadValue(NodeValue(w, c))

\* the position of cell c in the row-major walk
Rank(w, c) == c[1] * (Len(loc[w].lon) - 1) + c[2]

\* the cell a feature was built for
CellOfFeature(w, f) == CHOOSE c \in CellsOf(w) : IsFeatureOf(w, f, c)

\* C4: the loop visits exactly the (N-1) x (M-1) cells in row-major order;
\* the feature of cell (i, j) carries the value of node (i, j) (as the
\* property discharge, rounded to 2 decimals); the features are the accepted
\* cells in visiting order, none twice; the thresholds come from all the nodes.
C4_RowMajorNodeAnchored ==
    \A w \in Workers :
        Running(w) =>
            LET order == RowMajor(Len(loc[w].lat) - 1, Len(loc[w].lon) - 1)
                fs == loc[w].features
            IN  /\ Len(visited[w]) <= Len(order)
                /\ \A k \in 1..Len(visited[w]) : visited[w][k] = order[k]
                /\ pc[w] = "done" => visited[w] = order
                /\ pc[w] = "done" => loc[w].geojson.features = fs
                /\ \A k \in 1..Len(fs) :
                       /\ \E c \in Range(visited[w]) : IsFeatureOf(w, fs[k], c)
                       /\ fs[k].properties.discharge
                              = Round2(NodeValue(w, CellOfFeature(w, fs[k]))[2])
                /\ \A k, n \in 1..Len(fs) :
                       k < n => Rank(w, CellOfFeature(w, fs[k]))
                                    < Rank(w, CellOfFeature(w, fs[n]))
                /\ \A c \in Range(visited[w]) :
                       (\E k \in 1..Len(fs) : IsFeatureOf(w, fs[k], c))
                           <=> /\ Classified(w, c)
                               /\ GIA_LAI_POLYGON # <<>>
                                      => Contains(GIA_LAI_POLYGON, Centre2(w, c))
                /\ loc[w].q = compute_thresholds(cube[w].data[loc[w].var][loc[w].slice])

\* a 3 x 3 grid has been walked: four cells, features from both rows, and a
\* node value that round(x, 2) changes
C4_Witness ==
    /\ pc[1] = "done"
    /\ Len(loc[1].lat) = 3 /\ Len(loc[1].lon) = 3
    /\ Len(visited[1]) = 4
    /\ Len(loc[1].geojson.features) >= 3
    /\ \E k \in 1..Len(loc[1].features) : loc[1].features[k].properties.discharge = 38

\* C5: every feature is a Polygon of one ring of 5 vertices [lon, lat], in
\* the order top-left, top-right, bottom-right, bottom-left, top-left, and
\* has exactly the properties discharge, risk_level and risk_color.
C5_ClosedRingLonLat ==
    \A w \in Workers :
        \A k \in 1..Len(loc[w].features) :
            LET f == loc[w].features[k]
                r == f.geometry.coordinates[1]
            IN  /\ f.type = "Feature"
                /\ f.geometry.type = "Polygon"
                /\ Len(f.geometry.coordinates) = 1
                /\ Len(r) = 5
                /\ r[1] = r[5]
                /\ \E i \in 0..(Len(loc[w].lat) - 2), j \in 0..(Len(loc[w].lon) - 2) :
                       /\ r[1] = <<loc[w].lon[j + 1], loc[w].lat[i + 1]>>
                       /\ r[2] = <<loc[w].lon[j + 2], loc[w].lat[i + 1]>>
                       /\ r[3] = <<loc[w].lon[j + 2], loc[w].lat[i + 2]>>
                       /\ r[4] = <<loc[w].lon[j + 1], loc[w].lat[i + 2]>>
                       /\ <<i, j>> \in Range(visited[w])
                /\ DOMAIN f.properties = {"discharge", "risk_level", "risk_color"}

\* a finished invocation has emitted the feature of the cell (1, 1)
C5_Witness ==
    /\ pc[1] = "done"
    /\ \E k \in 1..Len(loc[1].geojson.features) :
           loc[1].geojson.features[k].geometry.coordinates
               = << << <<2, 8>>, <<4, 8>>, <<4, 6>>, <<2, 6>>, <<2, 8>> >> >>

\* C6 as claimed: with a boundary, a classified cell is emitted if and only
\* if its centre is inside the ring or on it; without one, always.
C6_BoundaryInclusive ==
    \A w \in Workers :
        pc[w] = "done" =>
            \A c \in Range(visited[w]) :
                Classified(w, c) =>
                    ((\E k \in 1..Len(loc[w].features) : IsFeatureOf(w, loc[w].features[k], c))
                        <=> (GIA_LAI_POLYGON = <<>>
                             \/ Covers(GIA_LAI_POLYGON, Centre2(w, c))))

\* C6, amended: with a boundary, a classified cell is emitted if and only if
\* its centre lies strictly inside the ring; a cell whose centre lies on the
\* ring (an edge or a vertex) is skipped; without a boundary no cell is
\* skipped by clipping.
C6_StrictInterior ==
    \A w \in Workers :
        pc[w] = "done" =>
            \A c \in Range(visited[w]) :
                Classified(w, c) =>
                    ((\E k \in 1..Len(loc[w].features) : IsFeatureOf(w, loc[w].features[k], c))
                        <=> (GIA_LAI_POLYGON = <<>>
                             \/ (/\ Covers(GIA_LAI_POLYGON, Centre2(w, c))
                                 /\ ~OnRing(GIA_LAI_POLYGON, Centre2(w, c)))))

\* a finished invocation with a boundary: one classified cell with its
\* centre on the ring was skipped, one with its centre inside was emitted,
\* one with its centre outside was skipped
C6_Witness ==
    /\ pc[1] = "done"
    /\ GIA_LAI_POLYGON # <<>>
    /\ \E c \in Range(visited[1]) :
           /\ Classified(1, c)
           /\ OnRing(GIA_LAI_POLYGON, Centre2(1, c))
           /\ \A k \in 1..Len(loc[1].features) : ~IsFeatureOf(1, loc[1].features[k], c)
    /\ \E c \in Range(visited[1]) :
           /\ Classified(1, c)
           /\ ~OnRing(GIA_LAI_POLYGON, Centre2(1, c))
           /\ \E k \in 1..Len(loc[1].features) : IsFeatureOf(1, loc[1].features[k], c)
    /\ \E c \in Range(visited[1]) :
           /\ Classified(1, c)
           /\ ~Covers(GIA_LAI_POLYGON, Centre2(1, c))

\* C7: choose_variable returns the variable of the first candidate present,
\* whatever the declaration order; with no candidate present, the first
\* declared variable, with the fallback warning; it fails if and only if the
\* cube declares no variable.
C7_FirstCandidateWins ==
    \A w \in Workers :
        pc[w] \notin {"off", "choose"} =>
            LET declared == Range(cube[w].data_vars)
                chose == ~(pc[w] = "failed" /\ loc[w].error = "IndexError"
                           /\ loc[w].var = "")
            IN  /\ (cube[w].data_vars = <<>>) <=> ~chose
                /\ \A k \in 1..Len(candidates) :
                       (/\ candidates[k] \in declared
                        /\ \A n \in 1..(k - 1) : candidates[n] \notin declared)
                           => chose /\ loc[w].var = candidates[k] /\ ~loc[w].warn
                /\ (declared # {} /\ declared \cap Range(candidates) = {})
                       => chose /\ loc[w].var = cube[w].data_vars[1] /\ loc[w].warn

\* a cube declaring "dis" before "dis24" has been given "dis24"
C7_Witness ==
    /\ cube[1].data_vars = <<"dis", "dis24">>
    /\ pc[1] = "done"
    /\ loc[1].var = "dis24"

\* the rank of the field after the lead-time slice is taken and the
\* non-spatial dimensions of size 1 are dropped
ReducedDims(c) ==
    LET Stays(d) == d[1] # "step" /\ ~(d[1] \notin Spatial /\ d[2] = 1)
    IN  SelectSeq(c.dims, Stays)

\* C8 as claimed: a field that is not 2-dimensional after reduction fails
\* with the shape-mismatch error (RuntimeError), before any threshold or
\* feature; a field accepted as 2-dimensional is (latitude, longitude).
C8_ShapeMismatch ==
    \A w \in Workers :
        (pc[w] \in {"failed", "thresholds", "loop", "done"} /\ cube[w].data_vars # <<>>) =>
            LET left == ReducedDims(cube[w])
            IN  /\ Len(left) # 2 => pc[w] = "failed" /\ loc[w].error = "RuntimeError"
                /\ pc[w] # "failed" =>
                       /\ Len(left) = 2
                       /\ left[1][1] \in {"latitude", "lat"}
                       /\ left[2][1] \in {"longitude", "lon"}

----------------------------------------------------------------------------
(* classify_point called on every value and every ordered threshold triple *)

\* thresholds in 1/800: every half eighth from 0 to MaxVal + 1
QVals == {50 * k : k \in 0..(2 * (MaxVal + 1))}

InitClassify ==
    /\ PipelineIdle
    /\ CacheIdle
    /\ \E v \in Vals, q2, q5, q20 \in QVals :
           /\ q2 <= q5 /\ q5 <= q20
           /\ call = [fn |-> "classify_point", discharge |-> v, q |-> <<q2, q5, q20>>]
    /\ ret = NoRet

CallClassify ==
    /\ call.fn = "classify_point"
    /\ ~ret.done
    /\ ret' = [done |-> TRUE,
               value |-> classify_point(call.discharge, call.q[1], call.q[2], call.q[3])]
    /\ UNCHANGED <<call, pipelineVars, cacheVars>>

NextClassify == CallClassify

SpecClassify == InitClassify /\ [][NextClassify]_vars

\* C2: classify_point is the decision list: non-finite or <= 0 gives no
\* classification; else >= q20 gives 20/purple; else >= q5 gives 5/red; else
\* >= q2 gives 2/orange; else 1/gray.  A value equal to a threshold gets the
\* higher tier, and of equal thresholds the highest tier wins.
C2_DecisionList ==
    (call.fn = "classify_point" /\ ret.done) =>
        LET v == call.discharge
            x == 100 * v[2]
            q2 == call.q[1]
            q5 == call.q[2]
            q20 == call.q[3]
            absent == v \in {NaN, PInf, NInf} \/ v[2] <= 0
        IN  /\ absent => ret.value = <<"None", "None">>
            /\ (~absent /\ x >= q20) => ret.value = <<"20", "purple">>
            /\ (~absent /\ x < q20 /\ x >= q5) => ret.value = <<"5", "red">>
            /\ (~absent /\ x < q5 /\ x >= q2) => ret.value = <<"2", "orange">>
            /\ (~absent /\ x < q2) => ret.value = <<"1", "gray">>
            /\ (~absent /\ x = q5 /\ x < q20) => ret.value[1] = "5"
            /\ (~absent /\ x = q2 /\ x < q5) => ret.value[1] = "2"

\* a value equal to q2 = q5 < q20 has been classified 5/red
C2_Witness ==
    /\ call.fn = "classify_point" /\ ret.done
    /\ call.discharge = Fin(2)
    /\ call.q = <<200, 200, 300>>
    /\ ret.value = <<"5", "red">>

----------------------------------------------------------------------------
(* compute_thresholds called on every field of at most MaxCount nodes *)

Shapes == {<<n, m>> \in (1..MaxCount) \X (1..MaxCount) : n * m <= MaxCount}

ThreshFields == UNION {[1..sh[1] -> [1..sh[2] -> Vals]] : sh \in Shapes}

InitThresh ==
    /\ PipelineIdle
    /\ CacheIdle
    /\ \E f \in ThreshFields : call = [fn |-> "compute_thresholds", values |-> f]
    /\ ret = NoRet

CallThresholds ==
    /\ call.fn = "compute_thresholds"
    /\ ~ret.done
    /\ ret' = [done |-> TRUE, value |-> compute_thresholds(call.values)]
    /\ UNCHANGED <<call, pipelineVars, cacheVars>>

NextThresh == CallThresholds

SpecThresh == InitThresh /\ [][NextThresh]_vars

\* the nodes holding a finite, strictly positive value
PosNodes(f) ==
    {n \in (1..Len(f)) \X (1..Len(f[1])) : f[n[1]][n[2]][1] = "fin" /\ f[n[1]][n[2]][2] > 0}

\* the r-th smallest value at the nodes S of f, r counted from 1
OrderStat(f, S, r) ==
    CHOOSE x \in {f[n[1]][n[2]][2] : n \in S} :
        /\ Cardinality({n \in S : f[n[1]][n[2]][2] < x}) < r
        /\ r <= Cardinality({n \in S : f[n[1]][n[2]][2] <= x})

\* the p-th percentile, linearly interpolated, in 1/800
Percentile(f, S, p) ==
    LET h == (Cardinality(S) - 1) * p
        lo == h \div 100
        g == h % 100
        below == OrderStat(f, S, lo + 1)
    IN  IF g = 0 THEN 100 * below
        ELSE 100 * below + g * (OrderStat(f, S, lo + 2) - below)

\* C3: compute_thresholds returns q2 <= q5 <= q20; the defaults 1.0, 5.0,
\* 10.0 when the field has no finite strictly positive value; otherwise the
\* 55th, 85th and 98th linearly interpolated percentiles of the finite
\* strictly positive values alone, all three strictly positive.
C3_OrderedPercentiles ==
    (call.fn = "compute_thresholds" /\ ret.done) =>
        LET q == ret.value
            S == PosNodes(call.values)
        IN  /\ q[1] <= q[2] /\ q[2] <= q[3]
            /\ S = {} => q = <<800, 4000, 8000>>
            /\ S # {} => /\ q = <<Percentile(call.values, S, 55),
                                  Percentile(call.values, S, 85),
                                  Percentile(call.values, S, 98)>>
                         /\ q[1] > 0

\* thresholds q2 < q5 < q20 have come from a field that also holds a NaN
\* and a zero
C3_Witness ==
    /\ call.fn = "compute_thresholds" /\ ret.done
    /\ ret.value[1] < ret.value[2] /\ ret.value[2] < ret.value[3]
    /\ \E n \in DOMAIN call.values, m \in DOMAIN call.values[1] : call.values[n][m] = NaN
    /\ \E n \in DOMAIN call.values, m \in DOMAIN call.values[1] : call.values[n][m] = Fin(0)

----------------------------------------------------------------------------
(* Claims about concurrent invocations, checked under SpecConc *)

\* what one invocation reads of its cube when nothing else runs
AloneVar(c) == choose_variable(c.data_vars).var
AloneDims(c) == drop_singletons(select_step(c.dims, c.steps).dims)
AloneValues(c) == c.data[AloneVar(c)][select_step(c.dims, c.steps).slice]
AloneLat(c) == c.coords[lat_name_of(AloneDims(c))]
AloneLon(c) == c.coords[lon_name_of(AloneDims(c))]

RECURSIVE AloneFeatures(_, _, _, _)
\* the features of the first k cells of order, for cube c and boundary b
AloneFeatures(c, b, order, k) ==
    IF k = 0 THEN <<>>
    ELSE AloneFeatures(c, b, order, k - 1)
         \o cell_features(AloneValues(c), AloneLat(c), AloneLon(c),
                          compute_thresholds(AloneValues(c)), b,
                          order[k][1], order[k][2])

AloneOrder(c) == RowMajor(Len(AloneLat(c)) - 1, Len(AloneLon(c)) - 1)

Isolated ==
    \A w \in Workers :
        /\ Running(w) =>
               /\ loc[w].q = compute_thresholds(AloneValues(cube[w]))
               /\ loc[w].features
                      = AloneFeatures(cube[w], GIA_LAI_POLYGON, AloneOrder(cube[w]),
                                      Len(visited[w]))
        /\ pc[w] = "done" =>
               loc[w].geojson
                   = [type |-> "FeatureCollection",
                      features |-> AloneFeatures(cube[w], GIA_LAI_POLYGON,
                                                 AloneOrder(cube[w]),
                                                 Len(AloneOrder(cube[w])))]
        /\ \A x \in Workers :
               (pc[w] = "done" /\ pc[x] = "done" /\ cube[w] = cube[x])
                   => loc[w].geojson = loc[x].geojson

\* C9: under every interleaving, the thresholds and the feature list of an
\* invocation are those it produces alone from its own cube and the
\* boundary (so equal inputs give equal collections), and no step changes
\* the process-wide boundary.
C9_Isolation == [](Isolated) /\ [][GIA_LAI_POLYGON' = GIA_LAI_POLYGON]_vars

\* two invocations on different cubes are both inside their loops, each
\* with a feature of its own
C9_Witness ==
    /\ pc[1] = "loop" /\ pc[2] = "loop"
    /\ cube[1] # cube[2]
    /\ loc[1].features # <<>> /\ loc[2].features # <<>>
    /\ loc[1].features # loc[2].features
    /\ loc[1].q # loc[2].q

----------------------------------------------------------------------------
(* download_glofas_forecast: the calls of serve_forecast and serve_raw_grib *)

\* line 60: GRIB_TEMPLATE.format(date=date_key)
grib_path(date_key) == <<"glofas_forecast_gialai_", date_key, ".grib">>

\* any GRIB file counts, whatever its date
exists_any(fs, path) == fs # {}

\* line 62: os.path.exists(grib_path)
exists(fs, path) == path \in fs

NoRequest == [pc |-> "off", date_key |-> 0, path |-> <<>>, found |-> FALSE, after |-> {}]

\* lines 56-60; after is the set of dates whose download had completed when
\* the call started
Start(r) ==
    /\ req[r].pc = "off"
    /\ req' = [req EXCEPT ![r] = [pc |-> "check", date_key |-> today,
                                  path |-> grib_path(today), found |-> FALSE,
                                  after |-> {e[3] : e \in {x \in Range(api) : x[1] = "done"}}]]
    /\ UNCHANGED <<today, files, api, pipelineVars, callVars>>

\* lines 62-64
Check(r) ==
    /\ req[r].pc = "check"
    /\ LET found == exists(files, req[r].path)
       IN  req' = [req EXCEPT ![r].found = found,
                              ![r].pc = IF found THEN "returned" ELSE "download"]
    /\ UNCHANGED <<today, files, api, pipelineVars, callVars>>

\* lines 66-85: the retrieval is sent to the remote API
Retrieve(r) ==
    /\ req[r].pc = "download"
    /\ api' = Append(api, <<"send", r, req[r].date_key>>)
    /\ req' = [req EXCEPT ![r].pc = "fetching"]
    /\ UNCHANGED <<today, files, pipelineVars, callVars>>

\* lines 85-88: the file is written and the path returned
Downloaded(r) ==
    /\ req[r].pc = "fetching"
    /\ files' = files \cup {req[r].path}
    /\ api' = Append(api, <<"done", r, req[r].date_key>>)
    /\ req' = [req EXCEPT ![r].pc = "returned"]
    /\ UNCHANGED <<today, pipelineVars, callVars>>

\* line 85: client.retrieve raises; what it wrote of the target may stay
RetrieveFails(r) ==
    /\ req[r].pc = "fetching"
    /\ \E partial \in BOOLEAN :
           files' = IF partial THEN files \cup {req[r].path} ELSE files
    /\ req' = [req EXCEPT ![r].pc = "failed"]
    /\ UNCHANGED <<today, api, pipelineVars, callVars>>

\* midnight in Asia/Ho_Chi_Minh
Midnight ==
    /\ today < MaxDay
    /\ today' = today + 1
    /\ UNCHANGED <<files, req, api, pipelineVars, callVars>>

InitCache ==
    /\ PipelineIdle
    /\ CallsIdle
    /\ today = 1
    /\ files = {}
    /\ req = [r \in Requests |-> NoRequest]
    /\ api = <<>>

NextCache ==
    \/ \E r \in Requests :
           \/ Start(r)
           \/ Check(r)
           \/ Retrieve(r)
           \/ Downloaded(r)
           \/ RetrieveFails(r)
    \/ Midnight

SpecCache == InitCache /\ [][NextCache]_vars

Sent(r) == \E k \in 1..Len(api) : api[k][1] = "send" /\ api[k][2] = r

\* C10: a call contacts the remote API only if no file of its date key
\* existed at its existence check; a call of date key D that starts after a
\* download for D has completed returns the path of D without a retrieval;
\* the path returned is the one of the call's own date key, and its file
\* exists.
C10_CacheByDate ==
    \A r \in Requests :
        /\ Sent(r) => ~req[r].found
        /\ req[r].pc \in {"download", "fetching"} => ~req[r].found
        /\ (req[r].pc # "off" /\ req[r].date_key \in req[r].after) =>
               /\ ~Sent(r)
               /\ req[r].pc \in {"check", "returned"}
        /\ req[r].pc = "returned" =>
               /\ req[r].path = grib_path(req[r].date_key)
               /\ req[r].path \in files

\* a call that started after the download of its date had completed has
\* returned the cached path, while a call of the next day has downloaded
C10_Witness ==
    \E r, x \in Requests :
        /\ req[r].pc = "returned" /\ req[r].date_key \in req[r].after /\ ~Sent(r)
        /\ req[x].pc = "returned" /\ Sent(x) /\ req[x].date_key = req[r].date_key

====
